---- MODULE Spec2Model ----
(***************************************************************************)
(* A model of the two non-trivial components of the repository:            *)
(*   - the process-transport bridge, MCPHttpWrapper (mcp_http_wrapper.js), *)
(*   - the routing/aggregation gateway, MCPProxyServer (proxy_server.js    *)
(*     with its config.js).                                                *)
(* Each component has its own specification (BridgeSpec, GatewaySpec);     *)
(* the variables of the other component keep their initial values.        *)
(***************************************************************************)
EXTENDS Integers, Sequences, FiniteSets, TLC

(* ---------------------------------------------------------------- bounds *)
\* HTTP requests the bridge receives in one run
MaxReqs == 2
\* largest id a caller puts in a POST /mcp body (0 stands for "no id")
MaxBodyId == 1
\* complete lines that may wait unread in a child's stdout when it writes one more
MaxBacklog == 1

(* ------------------------------------------------------- bridge: state *)
VARIABLES
    serverProcess,  \* this.serverProcess: 0 is null, p > 0 the p-th spawned child
    requestId,      \* this.requestId
    procState,      \* per child: "none" | "running" | "errored" | "closed"
    stdin,          \* per child: the requests written to its stdin, in order
    answered,       \* per child: indexes of stdin entries it has answered
    pipe,           \* per child: what it wrote to stdout and the wrapper has not read yet
    calls,          \* every sendToServer invocation so far (promise, listener, timer)
    reqs,           \* every HTTP request so far (route, position, response)
    crashed         \* an exception escaped a timer callback: the node process is gone

bridgeVars ==
    <<serverProcess, requestId, procState, stdin, answered, pipe, calls, reqs, crashed>>

VARIABLES
    strategy,       \* config.routing.strategy
    defaultServer,  \* config.routing.defaultServer (NoTarget when unset)
    healthEnabled,  \* config.healthCheck.enabled
    health,         \* this.downstreamHealthStatus: a map, keyed by the ids polled so far
    polls,          \* health polls in flight: [server, round]
    rounds,         \* calls of checkDownstreamHealth so far
    gw,             \* the proxied request being handled, with its response
    agg             \* the aggregation being computed, with its response

gatewayVars == <<strategy, defaultServer, healthEnabled, health, polls, rounds, gw, agg>>
\* the stdio client of the notes (MCPClient): requestId, the sendRequest calls
\* so far, the child's stdin and stdout, the partial line readline holds
VARIABLE client

clientVars == <<client>>

\* The forwarder's request construction, the agent's MCP client and the agent:
\* fwd is one inbound request with the request forwardRequest makes of it, mcp
\* one MCPClient with its makeRequest call, agent one DevAssistantAgent with
\* its processQuery call.
VARIABLES fwd, mcp, agent

\* The gateway's request accounting: config.logging.enableRequestLogging,
\* this.requestCounter, the inbound HTTP requests so far and the request_count
\* the last GET /health reported.
VARIABLE metrics
libVars == <<fwd, mcp, agent, metrics>>

vars == <<bridgeVars, gatewayVars, clientVars, libVars>>

\* a spawn happens only inside a request handler, at most once per request
Procs == 1..MaxReqs

\* an id that is undefined: a body without id, a promise without response
NoId == 0
BodyIds == 0..MaxBodyId
Kinds == {"mcp", "tools", "invoke"}

\* the method of the request each route sends
MethodOf(kind) ==
    CASE kind = "tools" -> "tools/list"
      [] kind = "invoke" -> "tools/call"
      [] OTHER -> "raw"

\* The mutable fields of the wrapper and its environment as one value, so that
\* a handler that calls other methods can thread the state through them.
Bridge ==
    [sp |-> serverProcess, rid |-> requestId, ps |-> procState, stdin |-> stdin,
     calls |-> calls, reqs |-> reqs, crashed |-> crashed]

Commit(b) ==
    /\ serverProcess' = b.sp
    /\ requestId' = b.rid
    /\ procState' = b.ps
    /\ stdin' = b.stdin
    /\ calls' = b.calls
    /\ reqs' = b.reqs
    /\ crashed' = b.crashed

(* ------------------------------------------------- bridge: sendToServer *)
\* One sendToServer invocation: the promise it returns (state, error, respId),
\* the stdout listener it registered and the 10 s timer it armed.
NewCall(id, proc, owner, role, live) ==
    [id |-> id, proc |-> proc, owner |-> owner, role |-> role,
     state |-> IF live THEN "pending" ELSE "rejected",
     error |-> IF live THEN "none" ELSE "not_running",
     respId |-> NoId, listener |-> live, timer |-> live]

\* sendToServer(request): reject when there is no child; otherwise register the
\* listener on the current child's stdout, write the line, arm the timer.
SendToServer(b, id, method, owner, role) ==
    IF b.sp = 0
    THEN [b EXCEPT !.calls = Append(@, NewCall(id, 0, owner, role, FALSE))]
    ELSE [b EXCEPT !.calls = Append(@, NewCall(id, b.sp, owner, role, TRUE)),
                   !.stdin[b.sp] = Append(@, [id |-> id, method |-> method])]

\* res.json(response) / res.status(500).json(...) of a route
Respond(b, r, status, error, respId) ==
    [b EXCEPT !.reqs[r] = [@ EXCEPT !.pc = "done", !.status = status,
                                    !.error = error, !.respId = respId]]

\* The part of a route after the lazy start: build the request (POST /mcp sends
\* req.body as it is, the other routes take this.requestId++) and send it.
RouteCall(b, r) ==
    LET kind == b.reqs[r].kind
        id == IF kind = "mcp" THEN b.reqs[r].bodyId ELSE b.rid
        b1 == IF kind = "mcp" THEN b ELSE [b EXCEPT !.rid = @ + 1]
        b2 == SendToServer(b1, id, MethodOf(kind), r, "call")
        c == b2.calls[Len(b2.calls)]
    IN  IF c.state = "rejected"
        THEN Respond(b2, r, 500, c.error, NoId)
        ELSE [b2 EXCEPT !.reqs[r].pc = "calling"]

\* startServer(): spawn, set this.serverProcess, send the initialize call.
StartServer(b, r) ==
    LET p == CHOOSE q \in Procs :
                 /\ b.ps[q] = "none"
                 /\ \A q2 \in Procs : q2 < q => b.ps[q2] # "none"
        b1 == [b EXCEPT !.sp = p, !.ps[p] = "running"]
        b2 == SendToServer([b1 EXCEPT !.rid = @ + 1], b1.rid, "initialize", r, "init")
        c == b2.calls[Len(b2.calls)]
    IN  IF c.state = "rejected"
        THEN Respond(b2, r, 500, c.error, NoId)
        ELSE [b2 EXCEPT !.reqs[r].pc = "starting"]

\* What runs when the promise of call k settles: the route awaiting it answers,
\* or, for the initialize call, startServer resolves and the route goes on.
Continue(b, k) ==
    LET c == b.calls[k]
        r == c.owner
    IN  IF c.role = "call"
        THEN IF b.reqs[r].pc # "calling" THEN b
             ELSE IF c.state = "resolved"
                  THEN Respond(b, r, 200, "none", c.respId)
                  ELSE Respond(b, r, 500, c.error, NoId)
        ELSE IF b.reqs[r].pc # "starting" THEN b
             ELSE IF c.state = "resolved"
                  THEN RouteCall(b, r)
                  ELSE Respond(b, r, 500, c.error, NoId)

RECURSIVE ContinueAll(_, _)
ContinueAll(b, ks) ==
    IF ks = <<>> THEN b ELSE ContinueAll(Continue(b, Head(ks)), Tail(ks))

\* a handler that takes any parsed line for its own response
HandlerMatchesAny(c, lineId) == TRUE

\* response.id === request.id
HandlerMatches(c, lineId) == lineId = c.id

\* responseHandler of call c on a data event of child p holding one JSON line
\* with id lineId. An exception inside the try block (this.serverProcess is
\* null) is swallowed by the catch; off() goes to the CURRENT child's stdout.
ResponseHandler(b, c, p, lineId) ==
    IF c.listener /\ c.proc = p /\ HandlerMatches(c, lineId) /\ b.sp # 0
    THEN [c EXCEPT !.listener = (b.sp # c.proc),
                   !.state = IF c.state = "pending" THEN "resolved" ELSE @,
                   !.respId = IF c.state = "pending" THEN lineId ELSE @]
    ELSE c

(* --------------------------------------------------- bridge: stdout text *)
\* The text a child writes to stdout, as a sequence of characters. A number is
\* one character here, so a chunk boundary never falls inside a number.
Char(c) == [c |-> c, n |-> 0]
Digit(i) == [c |-> "digit", n |-> i]
NL == Char("LF")

\* JSON.stringify(response) of a response with the given id (NoId: no id member)
JsonLine(id) == <<Char("{"), Digit(id), Char("}")>>
\* a line of log text
LogLine == <<Char("#")>>

\* text.split('\n')
RECURSIVE SplitLines(_)
SplitLines(text) ==
    IF \A i \in 1..Len(text) : text[i] # NL THEN <<text>>
    ELSE LET i == CHOOSE j \in 1..Len(text) :
                      text[j] = NL /\ \A j2 \in 1..(j - 1) : text[j2] # NL
         IN  <<SubSeq(text, 1, i - 1)>> \o SplitLines(SubSeq(text, i + 1, Len(text)))

\* .filter(line => line.trim())
NonBlank(lines) == SelectSeq(lines, LAMBDA line : line # <<>>)

\* JSON.parse(line) followed by the read of response.id: an object gives its
\* id, a bare number parses and has no id, anything else throws
JSONparse(line) ==
    IF Len(line) = Len(JsonLine(NoId)) /\ line = JsonLine(line[2].n)
    THEN [ok |-> TRUE, id |-> line[2].n]
    ELSE IF Len(line) = 1 /\ line[1].c = "digit"
    THEN [ok |-> TRUE, id |-> NoId]
    ELSE [ok |-> FALSE, id |-> NoId]

\* responseHandler of call c on one data event of child p: every line that
\* parses goes through the id check, a line that does not parse is skipped.
\* (The return after a match is not visible: a settled call ignores the rest.)
RECURSIVE HandleData(_, _, _, _)
HandleData(b, c, p, lines) ==
    IF lines = <<>> THEN c
    ELSE LET parsed == JSONparse(Head(lines))
             c1 == IF parsed.ok THEN ResponseHandler(b, c, p, parsed.id) ELSE c
         IN  HandleData(b, c1, p, Tail(lines))

\* stdout.emit('data', text): every call's handler sees the same text
OnData(b, p, text) ==
    [b EXCEPT !.calls =
        [k \in 1..Len(b.calls) |-> HandleData(b, b.calls[k], p, NonBlank(SplitLines(text)))]]

\* the callback of setTimeout(..., 10000) of call c
TimerCallback(b, c) ==
    [c EXCEPT !.timer = FALSE,
              !.listener = @ /\ (b.sp # c.proc),
              !.state = IF c.state = "pending" THEN "rejected" ELSE @,
              !.error = IF c.state = "pending" THEN "timeout" ELSE @]

\* indexes of the calls that were pending in old and are settled in new
Settled(old, new) ==
    SelectSeq([k \in 1..Len(old) |-> k],
              LAMBDA k : old[k].state = "pending" /\ new[k].state # "pending")

\* GET /health of the bridge: server: this.serverProcess ? 'running' : 'stopped'
serverStatus == IF serverProcess # 0 THEN "running" ELSE "stopped"

\* a route that starts a child for every request it can
NeedsStartPerRequest(b) == \E q \in Procs : b.ps[q] = "none"

\* if (!this.serverProcess) await this.startServer()
NeedsStart(b) == b.sp = 0

(* ----------------------------------------------------- bridge: actions *)
BridgeInit ==
    /\ serverProcess = 0
    /\ requestId = 1
    /\ procState = [p \in Procs |-> "none"]
    /\ stdin = [p \in Procs |-> <<>>]
    /\ answered = [p \in Procs |-> {}]
    /\ pipe = [p \in Procs |-> <<>>]
    /\ calls = <<>>
    /\ reqs = <<>>
    /\ crashed = FALSE

\* An HTTP request reaches POST /mcp, GET /tools or POST /invoke/:toolName.
\* The handler runs up to its first await: lazy start or the call itself.
Arrive(kind, bodyId) ==
    /\ ~crashed
    /\ Len(reqs) < MaxReqs
    /\ kind # "mcp" => bodyId = NoId
    /\ LET b0 == [Bridge EXCEPT !.reqs = Append(@,
                     [kind |-> kind, bodyId |-> bodyId, pc |-> "new", status |-> 0,
                      error |-> "none", respId |-> NoId])]
           r == Len(b0.reqs)
       IN  Commit(IF NeedsStart(b0) THEN StartServer(b0, r) ELSE RouteCall(b0, r))
    /\ UNCHANGED <<answered, pipe, gatewayVars, clientVars, libVars>>

\* The child answers a request it has read: one stdout data event carrying one
\* complete JSON line. Every listener registered on that stdout runs, then the
\* continuations of the promises they resolved.
Emit(p, idx) ==
    /\ ~crashed
    /\ procState[p] = "running"
    /\ idx \in (1..Len(stdin[p])) \ answered[p]
    /\ LET lineId == stdin[p][idx].id
           b1 == OnData(Bridge, p, JsonLine(lineId) \o <<NL>>)
       IN  Commit(ContinueAll(b1, Settled(calls, b1.calls)))
    /\ answered' = [answered EXCEPT ![p] = @ \cup {idx}]
    /\ UNCHANGED <<pipe, gatewayVars, clientVars, libVars>>

\* The 10 s timer of call k fires. All timers have the same delay, so they fire
\* in the order they were armed. With this.serverProcess null the callback
\* throws before it reaches reject(), and nothing catches it.
Timeout(k) ==
    /\ ~crashed
    /\ k \in 1..Len(calls)
    /\ calls[k].timer
    /\ \A j \in 1..(k - 1) : ~calls[j].timer
    /\ IF serverProcess = 0
       THEN /\ calls' = [calls EXCEPT ![k].timer = FALSE]
            /\ crashed' = TRUE
            /\ UNCHANGED <<serverProcess, requestId, procState, stdin, reqs>>
       ELSE LET b1 == [Bridge EXCEPT !.calls[k] = TimerCallback(Bridge, calls[k])]
            IN  Commit(ContinueAll(b1, Settled(calls, b1.calls)))
    /\ UNCHANGED <<answered, pipe, gatewayVars, clientVars, libVars>>

\* 'close' of child p, which comes after the last data event of its stdout:
\* the handler only resets this.serverProcess.
Close(p) ==
    /\ ~crashed
    /\ procState[p] \in {"running", "errored"}
    /\ pipe[p] = <<>>
    /\ procState' = [procState EXCEPT ![p] = "closed"]
    /\ serverProcess' = 0
    /\ UNCHANGED <<requestId, stdin, answered, pipe, calls, reqs, crashed, gatewayVars, clientVars, libVars>>

\* 'error' of child p (the spawn failed): the handler rejects the promise of
\* the startServer call that spawned p, and nothing else.
ProcError(p) ==
    /\ ~crashed
    /\ procState[p] = "running"
    /\ answered[p] = {}
    /\ LET b1 == [Bridge EXCEPT !.ps[p] = "errored"]
           starters == {k \in 1..Len(calls) : calls[k].proc = p /\ calls[k].role = "init"}
           r == calls[CHOOSE k \in starters : TRUE].owner
       IN  Commit(IF starters # {} /\ reqs[r].pc = "starting"
                  THEN Respond(b1, r, 500, "spawn_error", NoId)
                  ELSE b1)
    /\ UNCHANGED <<answered, pipe, gatewayVars, clientVars, libVars>>

(* ------------------------------------------- bridge: stdout as a stream *)
\* complete lines waiting in a text
Backlog(text) == Cardinality({i \in 1..Len(text) : text[i] = NL})

\* the longest text a data event can carry
MaxChunk == (MaxBacklog + 1) * (Len(JsonLine(NoId)) + 1)

\* The child answers a request it has read: the response line goes to its
\* stdout, where it waits until the wrapper reads it.
Write(p, idx) ==
    /\ ~crashed
    /\ procState[p] = "running"
    /\ idx \in (1..Len(stdin[p])) \ answered[p]
    /\ Backlog(pipe[p]) <= MaxBacklog
    /\ pipe' = [pipe EXCEPT ![p] = @ \o JsonLine(stdin[p][idx].id) \o <<NL>>]
    /\ answered' = [answered EXCEPT ![p] = @ \cup {idx}]
    /\ UNCHANGED <<serverProcess, requestId, procState, stdin, calls, reqs, crashed,
                   gatewayVars, clientVars, libVars>>

\* The child prints a line of log text to stdout.
WriteLog(p) ==
    /\ ~crashed
    /\ procState[p] = "running"
    /\ Backlog(pipe[p]) <= MaxBacklog
    /\ \A i \in 1..Len(pipe[p]) : pipe[p][i] # LogLine[1]
    /\ pipe' = [pipe EXCEPT ![p] = @ \o LogLine \o <<NL>>]
    /\ UNCHANGED <<serverProcess, requestId, procState, stdin, answered, calls, reqs,
                   crashed, gatewayVars, clientVars, libVars>>

\* One stdout 'data' event of child p: the stream hands over the next n
\* characters, wherever that cuts the text. Every listener registered on that
\* stdout runs, then the continuations of the promises they resolved.
Data(p, n) ==
    /\ ~crashed
    /\ procState[p] = "running"
    /\ n \in 1..Len(pipe[p])
    /\ LET b1 == OnData(Bridge, p, SubSeq(pipe[p], 1, n))
       IN  Commit(ContinueAll(b1, Settled(calls, b1.calls)))
    /\ pipe' = [pipe EXCEPT ![p] = SubSeq(@, n + 1, Len(@))]
    /\ UNCHANGED <<answered, gatewayVars, clientVars, libVars>>

(* ------------------------------------------------------- stdio client *)
\* new MCPClient()
NewClient ==
    [connected |-> FALSE, requestId |-> 1, calls |-> <<>>, stdin |-> <<>>,
     answered |-> {}, out |-> <<>>, buffer |-> <<>>]

\* catch (error) { reject(error) }: the handler stays registered
OnParseError(c) ==
    [c EXCEPT !.state = IF c.state = "pending" THEN "rejected" ELSE @,
              !.error = IF c.state = "pending" THEN "SyntaxError" ELSE @]

\* responseHandler of sendRequest on one 'line' event of readline
LineHandler(c, line) ==
    LET parsed == JSONparse(line)
    IN  IF ~c.listener THEN c
        ELSE IF ~parsed.ok THEN OnParseError(c)
        ELSE IF parsed.id = c.id
        THEN [c EXCEPT !.listener = FALSE,
                       !.state = IF c.state = "pending" THEN "resolved" ELSE @]
        ELSE c

\* rl.emit('line', line) for each line in turn: every registered handler runs
RECURSIVE OnLines(_, _)
OnLines(cs, lines) ==
    IF lines = <<>> THEN cs
    ELSE OnLines([k \in 1..Len(cs) |-> LineHandler(cs[k], Head(lines))], Tail(lines))

\* sendRequest(request) with id this.requestId++: register the handler on
\* 'line', write the request. There is no timer.
sendRequest(cl) ==
    [cl EXCEPT !.requestId = @ + 1,
               !.calls = Append(@, [id |-> cl.requestId, state |-> "pending",
                                    error |-> "none", listener |-> TRUE]),
               !.stdin = Append(@, cl.requestId)]

ClientInit == client = NewClient

\* connectToServer: spawn, readline on the child's stdout, sendInitialize
connectToServer ==
    /\ ~client.connected
    /\ client' = sendRequest([client EXCEPT !.connected = TRUE])
    /\ UNCHANGED <<bridgeVars, gatewayVars, libVars>>

\* getMethods / invokeMethod
clientCall ==
    /\ client.connected
    /\ Len(client.calls) < MaxReqs
    /\ client' = sendRequest(client)
    /\ UNCHANGED <<bridgeVars, gatewayVars, libVars>>

\* the child answers a request it has read
ClientWrite(idx) ==
    /\ idx \in (1..Len(client.stdin)) \ client.answered
    /\ Backlog(client.out) <= MaxBacklog
    /\ client' = [client EXCEPT !.out = @ \o JsonLine(client.stdin[idx]) \o <<NL>>,
                                !.answered = @ \cup {idx}]
    /\ UNCHANGED <<bridgeVars, gatewayVars, libVars>>

\* the child prints a line of log text to stdout
ClientWriteLog ==
    /\ client.connected
    /\ Backlog(client.out) <= MaxBacklog
    /\ \A i \in 1..Len(client.out) : client.out[i] # LogLine[1]
    /\ \A i \in 1..Len(client.buffer) : client.buffer[i] # LogLine[1]
    /\ client' = [client EXCEPT !.out = @ \o LogLine \o <<NL>>]
    /\ UNCHANGED <<bridgeVars, gatewayVars, libVars>>

\* One stdout 'data' event: readline appends the chunk to the partial line it
\* holds and emits 'line' for every line the text now completes.
ClientData(n) ==
    /\ n \in 1..Len(client.out)
    /\ LET pieces == SplitLines(client.buffer \o SubSeq(client.out, 1, n))
           lines == SubSeq(pieces, 1, Len(pieces) - 1)
       IN  client' = [client EXCEPT !.out = SubSeq(@, n + 1, Len(@)),
                                    !.buffer = pieces[Len(pieces)],
                                    !.calls = OnLines(@, lines)]
    /\ UNCHANGED <<bridgeVars, gatewayVars, libVars>>

(* ------------------------------------------------------ gateway: state *)
\* poll rounds of the health monitor in one run (the first one is started by
\* the constructor)
MaxRounds == 2


\* Object.keys(config.downstreamServers), in definition order
RegistryKeys == <<"github", "filesystem", "gdrive">>
ServerIds == {RegistryKeys[i] : i \in 1..Len(RegistryKeys)}

\* config.downstreamServers is an object literal: a lookup by a name that is no
\* own key falls through to Object.prototype, whose members are truthy.
ObjectPrototypeKeys == {"constructor", "toString", "__proto__"}

NoTarget == ""
Null == [kind |-> "null"]
NoList == <<>>

\* getDownstreamServer(identifier): config.downstreamServers[identifier] || null
getDownstreamServer(identifier) ==
    IF identifier \in ServerIds THEN [kind |-> "server", id |-> identifier]
    ELSE IF identifier \in ObjectPrototypeKeys THEN [kind |-> "inherited", id |-> identifier]
    ELSE Null

\* The end of determineTarget: look the target up, and name the error. The
\* 'Unknown target server' message overrides the one the switch may have set.
TargetInfo(routingContext, target) ==
    LET server == IF target # NoTarget THEN getDownstreamServer(target) ELSE Null
        error == IF target # NoTarget /\ server = Null THEN "unknown_target"
                 ELSE IF routingContext = "header" /\ target = NoTarget
                         /\ strategy = "header"
                      THEN "missing_header"
                 ELSE IF routingContext = "fallback" /\ target = NoTarget
                      THEN "no_default"
                      ELSE "none"
    IN  [target |-> target, server |-> server, error |-> error]

\* a resolution that takes the default server when the request names no target
determineTargetWithDefault(routingContext, named) ==
    TargetInfo(routingContext, IF named = NoTarget THEN defaultServer ELSE named)

\* a resolution that reads the target only the way the configured strategy says
determineTargetExclusive(routingContext, named) ==
    TargetInfo(routingContext, IF routingContext = strategy THEN named ELSE NoTarget)

\* determineTarget(req, routingContext): 'prefix' takes path segment 2 of
\* /proxy/{target}/..., 'header' takes the X-Target-MCP header (named: what the
\* request carries there; an empty segment and an absent header are both
\* falsy), 'fallback' takes config.routing.defaultServer.
determineTarget(routingContext, named) ==
    TargetInfo(routingContext,
               IF routingContext = "fallback" THEN defaultServer ELSE named)

\* a gate that only asks whether the server has a health record
isServerHealthyAnyRecord(serverId) == serverId \in DOMAIN health

\* isServerHealthy(serverId): health && health.status === 'healthy'
isServerHealthy(serverId) ==
    serverId \in DOMAIN health /\ health[serverId].status = "healthy"

\* the status of the record this.downstreamHealthStatus.get(serverId) returns
HealthSeen(serverId) ==
    IF serverId \in DOMAIN health THEN health[serverId].status ELSE "none"

\* a response without a passed-through body
NoBody == <<>>

\* seen: what the health gate read for the request, if it got that far; reply:
\* what the downstream call came to; body: the text sent when the response is
\* the downstream server's (the gateway's own responses are the JSON objects
\* with the fields error, message, available)
IdleRequest ==
    [pc |-> "idle", route |-> "none", target |-> NoTarget, forwardedTo |-> NoTarget,
     seen |-> "not_read", reply |-> Null, status |-> 0, error |-> "none",
     message |-> "none", available |-> NoList, body |-> NoBody]

\* what the downstream server, or the network, does with a forwarded request
\* bodies a downstream server sends: a JSON document, and text that is no JSON
\* (the HTML page an express application answers for a path it does not know)
DownstreamBodies == {JsonLine(1), LogLine}

\* A response with any status (validateStatus accepts them all), or an axios
\* error: connection refused, DNS failure, the timeout (ECONNABORTED), a reset.
ForwardOutcomes ==
    {[kind |-> "response", status |-> st, body |-> b] :
        st \in {200, 404, 500}, b \in DownstreamBodies}
    \cup {[kind |-> "error", code |-> c] :
            c \in {"ECONNREFUSED", "ENOTFOUND", "ECONNABORTED", "ECONNRESET"}}

\* response.data: axios parses a body that is JSON and keeps any other as a string
AxiosData(text) == [json |-> JSONparse(text).ok, text |-> text]

\* the text res.json(data) sends: JSON.stringify(data), which for a string is
\* the string in quotes
JSONstringify(data) ==
    IF data.json THEN data.text ELSE <<Char("quote")>> \o data.text \o <<Char("quote")>>

\* a catch branch that takes connection refused for the only connection failure
IsConnectionFailureRefusedOnly(code) == code = "ECONNREFUSED"

\* a catch branch that answers 503 for every error that carries a code
IsConnectionFailureAnyCode(code) == TRUE

\* error.code === 'ECONNREFUSED' || error.code === 'ENOTFOUND'
IsConnectionFailure(code) == code \in {"ECONNREFUSED", "ENOTFOUND"}

\* What handleProxyRequest answers once the downstream call has settled: the
\* downstream status with res.json(response.data), or the catch branch.
ProxyResponse(req, outcome) ==
    IF outcome.kind = "response"
    THEN [req EXCEPT !.pc = "done", !.reply = outcome, !.status = outcome.status,
                     !.body = JSONstringify(AxiosData(outcome.body))]
    ELSE IF IsConnectionFailure(outcome.code)
    THEN [req EXCEPT !.pc = "done", !.reply = outcome, !.status = 503,
                     !.error = "Downstream server unavailable",
                     !.message = "Unable to connect to the target MCP server"]
    ELSE [req EXCEPT !.pc = "done", !.reply = outcome, !.status = 500,
                     !.error = "Internal proxy error", !.message = outcome.code]

\* what a request can carry as its target
TargetInputs == ServerIds \cup {"unknown", "constructor", NoTarget}

\* failure responses that name no target
AvailableTargetsOmitted == NoList

\* available_targets of the 400 and the 404 response: the registry's keys
AvailableTargets == RegistryKeys

(* ---------------------------------------------------- gateway: actions *)
\* app.use('*'): a request that matches no route is answered 404
notFound ==
    /\ gw.pc \in {"idle", "done"}
    /\ gw' = [IdleRequest EXCEPT !.pc = "done", !.route = "unmatched", !.status = 404,
                                 !.error = "Endpoint not found",
                                 !.message = "Available endpoints",
                                 !.available = AvailableTargets]
    /\ UNCHANGED <<strategy, defaultServer, healthEnabled, health, polls, rounds, agg, bridgeVars, clientVars, libVars>>

\* handleProxyRequest up to its first await: resolve the target, answer 400
\* when there is none, answer 503 when it is not healthy, otherwise issue the
\* downstream call. Requests share no mutable state, so one is modelled at a time.
handleProxyRequest(route, target) ==
    /\ gw.pc \in {"idle", "done"}
    /\ LET targetInfo == determineTarget(route, target)
           req == [IdleRequest EXCEPT !.route = route, !.target = target]
           gated == [req EXCEPT !.seen = HealthSeen(targetInfo.target)]
       IN  gw' =
             IF targetInfo.server = Null
             THEN [req EXCEPT !.pc = "done", !.status = 400,
                              !.error = "Unable to determine target server",
                              !.message = IF targetInfo.error # "none"
                                          THEN targetInfo.error ELSE "no_routing_info",
                              !.available = AvailableTargets]
             ELSE IF ~isServerHealthy(targetInfo.target)
             THEN [gated EXCEPT !.pc = "done", !.status = 503,
                                !.error = "Target server unavailable",
                                !.message = "The target MCP server is currently unavailable"]
             ELSE [gated EXCEPT !.pc = "forwarding", !.forwardedTo = targetInfo.target]
    /\ UNCHANGED <<strategy, defaultServer, healthEnabled, health, polls, rounds, agg, bridgeVars, clientVars, libVars>>

\* The downstream call settles: forwardRequest returns (validateStatus accepts
\* every status) or throws, and the handler maps the outcome.
forwardDone(outcome) ==
    /\ gw.pc = "forwarding"
    /\ gw' = ProxyResponse(gw, outcome)
    /\ UNCHANGED <<strategy, defaultServer, healthEnabled, health, polls, rounds, agg, bridgeVars, clientVars, libVars>>

\* a loop that awaits each poll before starting the next one has only the
\* first server's poll in flight when the round starts
StartedPollsOneByOne(round) == {[server |-> RegistryKeys[1], round |-> round]}

\* servers.map(async (server) => ...): the callback of every server runs up to
\* its await axios.get, so a round's polls are all in flight together
StartedPolls(round) == {[server |-> s, round |-> round] : s \in ServerIds}

\* a monitor that forgets a server whose poll failed
SetHealthDeleteOnFailure(h, serverId, ok) ==
    IF ok
    THEN [s \in DOMAIN h \cup {serverId} |->
            IF s = serverId THEN [status |-> "healthy", error |-> "none"] ELSE h[s]]
    ELSE [s \in DOMAIN h \ {serverId} |-> h[s]]

\* a monitor whose poll result is written to the record of every server
SetHealthOfAll(h, serverId, ok) ==
    [s \in ServerIds |->
        IF ok THEN [status |-> "healthy", error |-> "none"]
              ELSE [status |-> "unhealthy", error |-> "message"]]

\* a monitor that updates the status of the record it has and keeps the rest
SetHealthMerge(h, serverId, ok) ==
    [s \in DOMAIN h \cup {serverId} |->
        IF s = serverId
        THEN IF ok THEN IF s \in DOMAIN h THEN [h[s] EXCEPT !.status = "healthy"]
                                          ELSE [status |-> "healthy", error |-> "none"]
                   ELSE [status |-> "unhealthy", error |-> "message"]
        ELSE h[s]]

\* this.downstreamHealthStatus.set(server.id, {...}) of the try branch (ok) and
\* of the catch branch
SetHealth(h, serverId, ok) ==
    [s \in DOMAIN h \cup {serverId} |->
        IF s = serverId
        THEN IF ok THEN [status |-> "healthy", error |-> "none"]
                   ELSE [status |-> "unhealthy", error |-> "message"]
        ELSE h[s]]

\* checkDownstreamHealth(), run by the interval timer: one poll per server,
\* all started before any is awaited.
checkDownstreamHealth ==
    /\ healthEnabled
    /\ rounds < MaxRounds
    /\ rounds' = rounds + 1
    /\ polls' = polls \cup StartedPolls(rounds + 1)
    /\ UNCHANGED <<strategy, defaultServer, healthEnabled, health, gw, agg, bridgeVars, clientVars, libVars>>

\* The interval timer fires after the polls of the latest round have settled
\* (an interval longer than the polls' 5 s timeout, as configured by default):
\* the round is not counted and its polls carry the latest round's number.
intervalTick ==
    /\ healthEnabled
    /\ \A poll \in polls : poll.round # rounds
    /\ polls' = polls \cup StartedPolls(rounds)
    /\ UNCHANGED <<strategy, defaultServer, healthEnabled, health, rounds, gw, agg, bridgeVars, clientVars, libVars>>

\* One poll settles: the try branch or the catch branch sets the record.
pollDone(poll, ok) ==
    /\ poll \in polls
    /\ polls' = polls \ {poll}
    /\ health' = SetHealth(health, poll.server, ok)
    /\ UNCHANGED <<strategy, defaultServer, healthEnabled, rounds, gw, agg, bridgeVars, clientVars, libVars>>

(* --------------------------------------------------- gateway: aggregation *)
\* The tools arrays a server may report. A name is the sequence of the dot-free
\* pieces between its dots: 'search' is <<"search">>, 'gdrive.search' is
\* <<"gdrive", "search">>.
ToolLists == {<<>>, <<<<"search">>>>, <<<<"search">>, <<"gdrive", "search">>>>}

\* What GET {server.url}/tools can come to. axios.get rejects on a network
\* error, a timeout and a non-2xx status; otherwise response.data is the body:
\* an object {tools: [...]}, a bare list, the JSON-RPC envelope
\* {result: {tools: [...]}}, null, or an object whose tools is no array.
DiscoveryOutcomes ==
    {[kind |-> "reject", shape |-> "none", tools |-> <<>>]}
    \cup {[kind |-> "data", shape |-> "object", tools |-> t] : t \in ToolLists}
    \cup {[kind |-> "data", shape |-> "list", tools |-> t] : t \in ToolLists \ {<<>>}}
    \cup {[kind |-> "data", shape |-> "envelope", tools |-> <<<<"search">>>>],
          [kind |-> "data", shape |-> "null", tools |-> <<>>],
          [kind |-> "data", shape |-> "badtools", tools |-> <<>>]}

\* an aggregation that keeps the names the servers report
UnprefixedName(serverId, toolName) == toolName

\* `${server.id}.${tool.name}`: the id (which has no dot), a dot, the name
PrefixedName(serverId, toolName) == <<serverId>> \o toolName

Available(outcome) ==
    [status |-> "available", error |-> "none",
     tools |-> [shape |-> IF outcome.shape = "object" THEN "list" ELSE outcome.shape,
                items |-> outcome.tools]]

Unavailable(message) ==
    [status |-> "unavailable", error |-> message,
     tools |-> [shape |-> "absent", items |-> <<>>]]

SetServer(allMethods, serverId, entry) ==
    [allMethods EXCEPT !.downstream_servers =
        [s \in DOMAIN allMethods.downstream_servers \cup {serverId} |->
            IF s = serverId THEN entry ELSE allMethods.downstream_servers[s]]]

\* the callback without its catch branch: what the try branch throws rejects
\* the callback's promise
DiscoveryTaskNoCatch(allMethods, serverId, outcome) ==
    IF outcome.kind = "reject" \/ outcome.shape = "null"
    THEN [all |-> allMethods, rejected |-> TRUE]
    ELSE IF outcome.shape = "badtools"
    THEN [all |-> SetServer(allMethods, serverId, Available(outcome)), rejected |-> TRUE]
    ELSE IF outcome.shape = "object"
    THEN [all |-> [SetServer(allMethods, serverId, Available(outcome)) EXCEPT
                      !.aggregated_tools = @ \o
                         [i \in 1..Len(outcome.tools) |->
                            [server |-> serverId, original |-> outcome.tools[i],
                             name |-> PrefixedName(serverId, outcome.tools[i])]]],
          rejected |-> FALSE]
    ELSE [all |-> SetServer(allMethods, serverId, Available(outcome)),
          rejected |-> FALSE]

\* The async callback aggregateGetMethods maps over the servers, from the point
\* where its axios.get settles: the try branch, and the catch branch for
\* whatever the try branch throws. Returns the object and whether the
\* callback's promise rejected.
DiscoveryTask(allMethods, serverId, outcome) ==
    IF outcome.kind = "reject"
    THEN [all |-> SetServer(allMethods, serverId, Unavailable("request_failed")),
          rejected |-> FALSE]
    ELSE IF outcome.shape = "null"
    THEN [all |-> SetServer(allMethods, serverId, Unavailable("TypeError")),
          rejected |-> FALSE]
    ELSE IF outcome.shape = "badtools"
    THEN [all |-> SetServer(allMethods, serverId, Unavailable("TypeError")),
          rejected |-> FALSE]
    ELSE IF outcome.shape = "object"
    THEN [all |-> [SetServer(allMethods, serverId, Available(outcome)) EXCEPT
                      !.aggregated_tools = @ \o
                         [i \in 1..Len(outcome.tools) |->
                            [server |-> serverId, original |-> outcome.tools[i],
                             name |-> PrefixedName(serverId, outcome.tools[i])]]],
          rejected |-> FALSE]
    ELSE [all |-> SetServer(allMethods, serverId, Available(outcome)),
          rejected |-> FALSE]

EmptyMethods == [downstream_servers |-> << >>, aggregated_tools |-> << >>]

IdleAggregation ==
    [pc |-> "idle", pending |-> {}, replies |-> << >>, all |-> EmptyMethods,
     status |-> 0, error |-> "none", body |-> EmptyMethods]

\* a loop that awaits each discovery call before issuing the next one has only
\* the first server's call in flight at its first await
DiscoveryCallsOneByOne == {RegistryKeys[1]}

\* getAllDownstreamServers().map(async (server) => ...): every callback runs up
\* to its await axios.get, so the calls to all servers are in flight together
DiscoveryCalls == ServerIds

\* GET /mcp/get_methods: aggregateGetMethods up to await Promise.all(promises):
\* every server's discovery call is issued. Each call builds its own object,
\* so one aggregation is modelled at a time.
aggregateGetMethods ==
    /\ agg.pc \in {"idle", "done"}
    /\ agg' = [IdleAggregation EXCEPT !.pc = "running", !.pending = DiscoveryCalls]
    /\ UNCHANGED <<strategy, defaultServer, healthEnabled, health, polls, rounds, gw, bridgeVars, clientVars, libVars>>

\* One discovery call settles and its callback runs. Promise.all rejects with
\* the first rejected callback (the route answers 500) and resolves when the
\* last callback is done (the route answers 200 with the object).
discoveryDone(serverId, outcome) ==
    /\ serverId \in agg.pending
    /\ LET task == DiscoveryTask(agg.all, serverId, outcome)
           left == agg.pending \ {serverId}
           a1 == [agg EXCEPT !.pending = left, !.all = task.all,
                             !.replies = [s \in DOMAIN agg.replies \cup {serverId} |->
                                            IF s = serverId THEN outcome ELSE agg.replies[s]]]
       IN  agg' =
             IF agg.pc # "running" THEN a1
             ELSE IF task.rejected
             THEN [a1 EXCEPT !.pc = "done", !.status = 500,
                             !.error = "Failed to aggregate methods from downstream servers"]
             ELSE IF left = {}
             THEN [a1 EXCEPT !.pc = "done", !.status = 200, !.body = task.all]
             ELSE a1
    /\ UNCHANGED <<strategy, defaultServer, healthEnabled, health, polls, rounds, gw, bridgeVars, clientVars, libVars>>

(* ------------------------------------------------ gateway: forwardRequest *)
\* HTTP methods of inbound requests (app.all)
Methods == {"GET", "POST", "PUT", "PATCH", "DELETE"}

\* req.headers: Node gives the names in lower case
HeaderNames ==
    {"host", "connection", "content-length", "authorization", "content-type",
     "x-custom-header"}

HeaderValues(name) ==
    IF name = "content-type" THEN {"application/json", "text/plain"} ELSE {"value"}

InboundHeaders ==
    UNION {{h \in [names -> {"application/json", "text/plain", "value"}] :
                \A n \in names : h[n] \in HeaderValues(n)} : names \in SUBSET HeaderNames}

\* req.query: no parameter, or one
NoQuery == << >>
InboundQueries == {NoQuery, [q |-> "v"]}

\* the body the caller sent: none, a JSON document, text that is no JSON
InboundBodies == {NoBody, JsonLine(1), LogLine}

InboundRequests ==
    [method : Methods, headers : InboundHeaders, query : InboundQueries, body : InboundBodies]

\* the parsed value {} of a request whose body no parser read
EmptyObject == [json |-> TRUE, text |-> <<Char("{"), Char("}")>>]

\* express.json(): req.body of a request. A body sent as application/json is
\* parsed (a body that does not parse is answered 400 by the parser and never
\* reaches a route); any other, and none, leaves req.body = {}.
ExpressJson(req) ==
    IF /\ "content-type" \in DOMAIN req.headers
       /\ req.headers["content-type"] = "application/json"
       /\ req.body # NoBody
    THEN [ok |-> JSONparse(req.body).ok, body |-> [json |-> TRUE, text |-> req.body]]
    ELSE [ok |-> TRUE, body |-> EmptyObject]

\* a header list that leaves content-length in
HopByHopWithoutLength == {"host", "connection"}

\* delete forwardHeaders.host / .connection / ['content-length']
HopByHop == {"host", "connection", "content-length"}

\* forwardHeaders: a copy of req.headers without the hop-by-hop headers
ForwardHeaders(headers) == [h \in DOMAIN headers \ HopByHop |-> headers[h]]

\* methods whose req.body becomes requestConfig.data
BodyMethods == {"POST", "PUT", "PATCH"}

NoData == [json |-> FALSE, text |-> NoBody]

\* requestConfig of forwardRequest, req.body being the parsed body
RequestConfig(req, body) ==
    [method |-> req.method,
     headers |-> ForwardHeaders(req.headers),
     hasData |-> req.method \in BodyMethods,
     data |-> IF req.method \in BodyMethods THEN body ELSE NoData,
     hasParams |-> req.query # NoQuery,
     params |-> IF req.query # NoQuery THEN req.query ELSE NoQuery]

\* what axios(requestConfig) sends: the method, the params as query, the data
\* object as its JSON text
Sent(config) ==
    [method |-> config.method,
     headers |-> config.headers,
     query |-> IF config.hasParams THEN config.params ELSE NoQuery,
     body |-> IF config.hasData THEN JSONstringify(config.data) ELSE NoBody]

NoRequest == [method |-> "none", headers |-> << >>, query |-> NoQuery, body |-> NoBody]

IdleForward == [pc |-> "idle", req |-> NoRequest, sent |-> NoRequest]

\* an inbound request that reached handleProxyRequest and passed the gate
ForwardInit == \E req \in InboundRequests :
    /\ ExpressJson(req).ok
    /\ fwd = [pc |-> "inbound", req |-> req, sent |-> NoRequest]

\* forwardRequest(targetInfo, req) up to await axios(requestConfig)
forwardRequest ==
    /\ fwd.pc = "inbound"
    /\ fwd' = [fwd EXCEPT !.pc = "sent",
                          !.sent = Sent(RequestConfig(fwd.req, ExpressJson(fwd.req).body))]
    /\ UNCHANGED <<bridgeVars, gatewayVars, clientVars, mcp, agent, metrics>>

(* ------------------------------------------------------ agent: MCPClient *)
\* largest retries option a caller passes
MaxRetries == 3

\* options.retries || 3
DefaultRetries == 3

\* the retries option of the constructor; 0 stands for an option not given
RetryOptions == 0..MaxRetries

\* new MCPClient(options), with no makeRequest call yet
NewMCPClient(retries) ==
    [retries |-> IF retries = 0 THEN DefaultRetries ELSE retries,
     pc |-> "idle", serverPrefix |-> "none", attempt |-> 0,
     posts |-> << >>, sleeps |-> << >>, failedAfter |-> 0]

\* What one POST comes to: a response without error member, a response whose
\* data has an error member, a response without data (reading .error throws),
\* a rejected call (network error, timeout, status outside 2xx).
PostOutcomes == {"ok", "error_in_body", "no_data", "rejected"}

ServerPrefixes == {"filesystem", "github"}

\* a delay that starts at two seconds
BackoffDoubled(attempt) == 1000 * 2^attempt

\* 1000 * Math.pow(2, attempt - 1)
Backoff(attempt) == 1000 * 2^(attempt - 1)

\* where the for loop stands once attempt has its value: the POST of the
\* attempt is sent, or the loop is over and the function returns undefined
LoopTest(cl, attempt) ==
    IF attempt <= cl.retries
    THEN [cl EXCEPT !.pc = "posting", !.attempt = attempt]
    ELSE [cl EXCEPT !.pc = "returned", !.attempt = attempt]

\* makeRequest(method, params, serverPrefix) up to the first await
makeRequest(serverPrefix) ==
    /\ mcp.pc \in {"idle", "returned", "thrown"}
    /\ mcp' = LoopTest([NewMCPClient(mcp.retries) EXCEPT !.serverPrefix = serverPrefix], 1)
    /\ UNCHANGED <<bridgeVars, gatewayVars, clientVars, fwd, agent, metrics>>

\* the POST of the attempt settles: return response.data, or the catch block
postDone(outcome) ==
    /\ mcp.pc = "posting"
    /\ LET posted == [mcp EXCEPT !.posts = Append(mcp.posts, outcome)]
       IN  mcp' =
             IF outcome = "ok" THEN [posted EXCEPT !.pc = "returned"]
             ELSE IF mcp.attempt = mcp.retries
             THEN [posted EXCEPT !.pc = "thrown", !.failedAfter = mcp.retries]
             ELSE [posted EXCEPT !.pc = "sleeping",
                                 !.sleeps = Append(mcp.sleeps, Backoff(mcp.attempt))]
    /\ UNCHANGED <<bridgeVars, gatewayVars, clientVars, fwd, agent, metrics>>

\* the timer of this.sleep fires: attempt++ and the loop test
sleepDone ==
    /\ mcp.pc = "sleeping"
    /\ mcp' = LoopTest(mcp, mcp.attempt + 1)
    /\ UNCHANGED <<bridgeVars, gatewayVars, clientVars, fwd, agent, metrics>>

(* ------------------------------------------------- agent: parseQuery *)
\* What parseQuery looks for in a query: one of the words github, repository,
\* repo; 'issue <number>'; 'user <name>'; one of the words jira, ticket; a key
\* NEX-<number>; one of the words file, directory; the words list, read; one
\* of the words drive, gdrive. A query is the set of those it contains.
QueryFeatures ==
    {"github", "issue_number", "user_name", "jira", "nex_key", "file", "list", "read",
     "drive"}

Queries == SUBSET QueryFeatures

\* parseQuery(query): the server and the action of the first pattern that
\* returns, else the default
parseQuery(query) ==
    IF "github" \in query /\ "issue_number" \in query
    THEN [server |-> "github", action |-> "get_issue"]
    ELSE IF "github" \in query /\ "user_name" \in query
    THEN [server |-> "github", action |-> "get_user_info"]
    ELSE IF "nex_key" \in query
    THEN [server |-> "atlassian", action |-> "get_issue"]
    ELSE IF query \cap {"file", "list"} # {} /\ "list" \in query
    THEN [server |-> "filesystem", action |-> "list_files"]
    ELSE IF query \cap {"file", "list"} # {} /\ "read" \in query
    THEN [server |-> "filesystem", action |-> "read_file"]
    ELSE IF "drive" \in query
    THEN [server |-> "gdrive", action |-> "list_files"]
    ELSE [server |-> "filesystem", action |-> "list_files"]

(* ------------------------------------------------ agent: DevAssistantAgent *)
\* queries a caller may await in a row
MaxQueries == 3

\* createVectorStore of initialize(): the full RAG is set up; it fails on the
\* API key and the demo RAG is set up; it fails on the API key and the demo
\* RAG fails too; it fails on anything else
InitOutcomes == {"full", "demo", "demo_failed", "failed"}

\* new DevAssistantAgent(options); results lists what the processQuery calls
\* came to, in order
NewAgent ==
    [isInitialized |-> FALSE, ragMode |-> "full", pc |-> "idle",
     lazyInit |-> FALSE, mcpResult |-> "null", results |-> << >>]

\* initialize(): isInitialized is set only when a vector store was created
initialize(a, outcome) ==
    IF outcome \in {"full", "demo"}
    THEN [threw |-> FALSE, agent |-> [a EXCEPT !.ragMode = outcome, !.isInitialized = TRUE]]
    ELSE [threw |-> TRUE, agent |-> a]

\* processQuery(query) up to its first await: initialize() of an agent that
\* is not initialized, else parseQuery and the MCP call
processQuery ==
    /\ agent.pc = "idle"
    /\ Len(agent.results) < MaxQueries
    /\ agent' = [agent EXCEPT !.pc = IF agent.isInitialized THEN "mcp" ELSE "initializing",
                              !.lazyInit = ~agent.isInitialized,
                              !.mcpResult = "null"]
    /\ UNCHANGED <<bridgeVars, gatewayVars, clientVars, fwd, mcp, metrics>>

\* await this.initialize() settles; it stands before the try block, so what
\* it throws leaves processQuery as a rejection
initializeDone(outcome) ==
    /\ agent.pc = "initializing"
    /\ LET init == initialize(agent, outcome)
       IN  agent' =
             IF init.threw
             THEN [init.agent EXCEPT
                      !.pc = "idle",
                      !.results = Append(agent.results,
                          [settled |-> "rejected", lazyInit |-> TRUE, mcpFailed |-> FALSE,
                           ragFailed |-> FALSE, success |-> FALSE, mcpResult |-> "null",
                           error |-> "none"])]
             ELSE [init.agent EXCEPT !.pc = "mcp"]
    /\ UNCHANGED <<bridgeVars, gatewayVars, clientVars, fwd, mcp, metrics>>

\* await this.mcpClient.invokeMethod(...) settles; its catch only logs
invokeMethodDone(ok) ==
    /\ agent.pc = "mcp"
    /\ agent' = [agent EXCEPT !.pc = "rag", !.mcpResult = IF ok THEN "result" ELSE "null"]
    /\ UNCHANGED <<bridgeVars, gatewayVars, clientVars, fwd, mcp, metrics>>

\* the RAG query settles: its catch rethrows into the outer catch, which
\* returns {success: false, error}; otherwise {success: true, mcpResult, ...}
ragQueryDone(ok) ==
    /\ agent.pc = "rag"
    /\ agent' = [agent EXCEPT
                    !.pc = "idle",
                    !.results = Append(agent.results,
                        [settled |-> "resolved", lazyInit |-> agent.lazyInit,
                         mcpFailed |-> agent.mcpResult = "null", ragFailed |-> ~ok,
                         success |-> ok,
                         mcpResult |-> IF ok THEN agent.mcpResult ELSE "absent",
                         error |-> IF ok THEN "none" ELSE "message"])]
    /\ UNCHANGED <<bridgeVars, gatewayVars, clientVars, fwd, mcp, metrics>>

(* ------------------------------------------- gateway: request counter *)
\* inbound requests a run counts
MaxInbound == 3

\* An inbound request: GET /health, one that reaches another route or the 404
\* handler, one whose JSON body express.json cannot parse (the parser passes
\* its error on, and express skips the middleware after it).
InboundKinds == {"health", "routed", "malformed_json"}

\* new MCPProxyServer(): this.requestCounter = 0
NewMetrics(enableRequestLogging) ==
    [enableRequestLogging |-> enableRequestLogging, requestCounter |-> 0,
     inbound |-> << >>, reported |-> 0]

\* the middleware chain of setupMiddleware for one request: the logging
\* middleware, registered only when enabled, increments the counter
LoggingMiddleware(m, kind) ==
    IF m.enableRequestLogging /\ kind # "malformed_json"
    THEN [m EXCEPT !.requestCounter = @ + 1]
    ELSE m

\* one inbound request runs through the middleware and, GET /health, reports
\* request_count: this.requestCounter
inboundRequest(kind) ==
    /\ Len(metrics.inbound) < MaxInbound
    /\ LET m == LoggingMiddleware([metrics EXCEPT !.inbound = Append(@, kind)], kind)
       IN  metrics' = IF kind = "health" THEN [m EXCEPT !.reported = m.requestCounter] ELSE m
    /\ UNCHANGED <<bridgeVars, gatewayVars, clientVars, fwd, mcp, agent>>

\* no forwarded request, a client and an agent as constructed by default
LibIdle ==
    fwd = IdleForward /\ mcp = NewMCPClient(0) /\ agent = NewAgent /\ metrics = NewMetrics(TRUE)

(* --------------------------------------------------------- specifications *)
\* the gateway as constructed: the configuration is read, and with health
\* checking enabled the constructor has started the first poll round
GatewayStart(defaults) ==
    /\ strategy \in {"prefix", "header"}
    /\ defaultServer \in defaults
    /\ healthEnabled \in BOOLEAN
    /\ health = << >>
    /\ rounds = IF healthEnabled THEN 1 ELSE 0
    /\ polls = IF healthEnabled THEN StartedPolls(1) ELSE {}
    /\ gw = IdleRequest
    /\ agg = IdleAggregation

\* DEFAULT_MCP_SERVER is not set
GatewayInit == GatewayStart({NoTarget})

\* a gateway that is not running, for the specification of the bridge
GatewayOff ==
    /\ strategy = "prefix"
    /\ defaultServer = NoTarget
    /\ healthEnabled = FALSE
    /\ health = << >>
    /\ rounds = 0
    /\ polls = {}
    /\ gw = IdleRequest
    /\ agg = IdleAggregation

BridgeNext ==
    \/ \E kind \in Kinds, bodyId \in BodyIds : Arrive(kind, bodyId)
    \/ \E p \in Procs, idx \in 1..(2 * MaxReqs) : Emit(p, idx)
    \/ \E k \in 1..(2 * MaxReqs) : Timeout(k)
    \/ \E p \in Procs : Close(p)
    \/ \E p \in Procs : ProcError(p)

\* the bridge with the child's stdout as a character stream
StreamNext ==
    \/ \E kind \in Kinds, bodyId \in BodyIds : Arrive(kind, bodyId)
    \/ \E p \in Procs, idx \in 1..(2 * MaxReqs) : Write(p, idx)
    \/ \E p \in Procs : WriteLog(p)
    \/ \E p \in Procs, n \in 1..MaxChunk : Data(p, n)
    \/ \E k \in 1..(2 * MaxReqs) : Timeout(k)
    \/ \E p \in Procs : Close(p)
    \/ \E p \in Procs : ProcError(p)

\* the bridge alone
InitBridge == BridgeInit /\ GatewayOff /\ ClientInit /\ LibIdle

\* every response is read as one data event holding one line
BridgeSpec == InitBridge /\ [][BridgeNext]_vars

\* the data events cut the child's output anywhere
StreamSpec == InitBridge /\ [][StreamNext]_vars

ProxyNext ==
    \/ \E route \in {"prefix", "header"}, target \in TargetInputs :
          handleProxyRequest(route, target)
    \/ \E outcome \in ForwardOutcomes : forwardDone(outcome)
    \/ checkDownstreamHealth
    \/ \E s \in ServerIds, round \in 1..MaxRounds, ok \in BOOLEAN :
          pollDone([server |-> s, round |-> round], ok)

\* the gateway alone
InitGateway == BridgeInit /\ GatewayInit /\ ClientInit /\ LibIdle

ProxySpec == InitGateway /\ [][ProxyNext]_vars

\* The routes around handleProxyRequest, on a gateway whose health monitor ran
\* its first round, with DEFAULT_MCP_SERVER set or not.
RoutingNext ==
    \/ \E route \in {"prefix", "header"}, target \in TargetInputs :
          handleProxyRequest(route, target)
    \/ \E outcome \in ForwardOutcomes : forwardDone(outcome)
    \/ notFound
    \/ \E s \in ServerIds, ok \in BOOLEAN : pollDone([server |-> s, round |-> 1], ok)

InitRouting == BridgeInit /\ GatewayStart({NoTarget} \cup ServerIds) /\ ClientInit /\ LibIdle

RoutingSpec == InitRouting /\ [][RoutingNext]_vars

AggregateNext ==
    \/ aggregateGetMethods
    \/ \E s \in ServerIds, outcome \in DiscoveryOutcomes : discoveryDone(s, outcome)

AggregateSpec == InitGateway /\ [][AggregateNext]_vars

\* Request handling, aggregation and the first poll round side by side: a
\* request by path for a registered and for an unknown server, a downstream
\* call that is answered and one that is refused, a discovery call that is
\* answered and one that fails.
FrameTargets == {"github", "unknown"}
FrameOutcomes ==
    {[kind |-> "response", status |-> 200, body |-> JsonLine(1)],
     [kind |-> "error", code |-> "ECONNREFUSED"]}
FrameDiscoveries ==
    {[kind |-> "reject", shape |-> "none", tools |-> <<>>],
     [kind |-> "data", shape |-> "object", tools |-> <<<<"search">>>>]}

FrameNext ==
    \/ \E target \in FrameTargets : handleProxyRequest("prefix", target)
    \/ \E outcome \in FrameOutcomes : forwardDone(outcome)
    \/ \E s \in ServerIds, ok \in BOOLEAN : pollDone([server |-> s, round |-> 1], ok)
    \/ aggregateGetMethods
    \/ \E s \in ServerIds, outcome \in FrameDiscoveries : discoveryDone(s, outcome)

FrameSpec == InitGateway /\ [][FrameNext]_vars

\* The health monitor polling for ever, with requests by path. The interval
\* timer keeps firing and every poll settles (axios.get has a 5 s timeout).
MonitorNext ==
    \/ \E target \in FrameTargets : handleProxyRequest("prefix", target)
    \/ \E outcome \in FrameOutcomes : forwardDone(outcome)
    \/ intervalTick
    \/ \E s \in ServerIds, ok \in BOOLEAN : pollDone([server |-> s, round |-> 1], ok)

MonitorSpec ==
    /\ InitGateway /\ [][MonitorNext]_vars
    /\ WF_vars(intervalTick)
    /\ \A s \in ServerIds :
          WF_vars(\E ok \in BOOLEAN : pollDone([server |-> s, round |-> 1], ok))

\* the gateway's middleware chain, with request logging enabled or not
CounterNext == \E kind \in InboundKinds : inboundRequest(kind)

InitCounter ==
    /\ BridgeInit /\ GatewayInit /\ ClientInit
    /\ fwd = IdleForward /\ mcp = NewMCPClient(0) /\ agent = NewAgent
    /\ \E enabled \in BOOLEAN : metrics = NewMetrics(enabled)

CounterSpec == InitCounter /\ [][CounterNext]_vars

\* The agent's requests at the gateway, whose monitor ran its first round:
\* invokeMethod(action, params, server) of a parsed query is
\* POST /proxy/<server>/mcp.
ParseNext ==
    \/ \E query \in Queries : handleProxyRequest("prefix", parseQuery(query).server)
    \/ \E outcome \in ForwardOutcomes : forwardDone(outcome)
    \/ \E s \in ServerIds, ok \in BOOLEAN : pollDone([server |-> s, round |-> 1], ok)

ParseSpec == InitGateway /\ [][ParseNext]_vars

\* forwardRequest applied to every inbound request
ForwardNext == forwardRequest

InitForward ==
    /\ BridgeInit /\ GatewayOff /\ ClientInit
    /\ ForwardInit /\ mcp = NewMCPClient(0) /\ agent = NewAgent
    /\ metrics = NewMetrics(TRUE)

ForwardSpec == InitForward /\ [][ForwardNext]_vars

\* makeRequest calls of one MCPClient
RetryNext ==
    \/ \E serverPrefix \in ServerPrefixes : makeRequest(serverPrefix)
    \/ \E outcome \in PostOutcomes : postDone(outcome)
    \/ sleepDone

InitRetry ==
    /\ BridgeInit /\ GatewayOff /\ ClientInit
    /\ fwd = IdleForward /\ agent = NewAgent /\ metrics = NewMetrics(TRUE)
    /\ \E retries \in RetryOptions : mcp = NewMCPClient(retries)

\* every POST settles (the axios instance has a timeout) and every sleep
\* timer fires
RetrySpec ==
    /\ InitRetry /\ [][RetryNext]_vars
    /\ WF_vars(\E outcome \in PostOutcomes : postDone(outcome))
    /\ WF_vars(sleepDone)

\* processQuery calls of one DevAssistantAgent, one after the other
AgentNext ==
    \/ processQuery
    \/ \E outcome \in InitOutcomes : initializeDone(outcome)
    \/ \E ok \in BOOLEAN : invokeMethodDone(ok)
    \/ \E ok \in BOOLEAN : ragQueryDone(ok)

InitAgent == BridgeInit /\ GatewayOff /\ ClientInit /\ LibIdle

AgentSpec == InitAgent /\ [][AgentNext]_vars

(* ------------------------------------------------------- bridge: claims *)
\* the lines the children emit in the step: [proc, id]
NewLines ==
    UNION {{[proc |-> p, id |-> stdin[p][i].id] : i \in answered'[p] \ answered[p]} :
           p \in Procs}

\* C1: responses are routed by id, whatever the order the child emits them in.
\* A call becomes resolved only in a step in which its child emits a line with
\* the call's own id, and the response it gets carries that id; every pending
\* call whose id the emitted line carries is resolved by it; a line with
\* another id leaves a call exactly as it was (not resolved, not rejected, its
\* listener still registered).
C1_RoutedById ==
    [][\A k \in 1..Len(calls) :
         LET c == calls[k]
             d == calls'[k]
         IN  /\ (c.state = "pending" /\ d.state = "resolved") =>
                   /\ d.respId = c.id
                   /\ [proc |-> c.proc, id |-> c.id] \in NewLines
             /\ \A line \in NewLines :
                   /\ (c.proc = line.proc /\ c.state = "pending" /\ c.listener
                         /\ c.id = line.id) =>
                        (d.state = "resolved" /\ d.respId = line.id)
                   /\ c.id # line.id => d = c]_vars

\* C1 witness: two calls are outstanding on the same child and the later one
\* has been answered first.
C1_Witness ==
    \E j \in 1..Len(calls), k \in 1..Len(calls) :
        /\ j < k
        /\ calls[j].proc = calls[k].proc
        /\ calls[j].id # calls[k].id
        /\ calls[j].state = "pending" /\ calls[j].listener
        /\ calls[k].state = "resolved" /\ calls[k].respId = calls[k].id

\* C2: once a child has exited or errored, no call written to it is still
\* pending: every call outstanding at that moment was rejected.
C2_RejectedOnExit ==
    \A k \in 1..Len(calls) :
        calls[k].state = "pending" => procState[calls[k].proc] = "running"

\* C3: when the deadline of a pending call expires, the call is rejected with
\* a timeout error and its listener is removed; a settled call is never settled
\* again (a late response does not complete it).
C3_TimeoutSettlesOnce ==
    [][\A k \in 1..Len(calls) :
         LET c == calls[k]
             d == calls'[k]
         IN  /\ (c.timer /\ ~d.timer /\ c.state = "pending") =>
                   (d.state = "rejected" /\ d.error = "timeout" /\ ~d.listener)
             /\ c.state # "pending" =>
                   (d.state = c.state /\ d.error = c.error /\ d.respId = c.respId)]_vars

\* C7: no two outstanding calls carry the same id.
C7_FreshIds ==
    \A j \in 1..Len(calls), k \in 1..Len(calls) :
        (j # k /\ calls[j].state = "pending" /\ calls[k].state = "pending") =>
            calls[j].id # calls[k].id

\* the initialize call of child p has been answered
Initialized(p) ==
    \E k \in 1..Len(calls) :
        calls[k].role = "init" /\ calls[k].proc = p /\ calls[k].state = "resolved"

\* C8: a child whose stdin holds a caller's request has completed the
\* initialize handshake (the request was written after the response to it).
C8_HandshakeFirst ==
    \A p \in Procs :
        (\E i \in 1..Len(stdin[p]) : stdin[p][i].method # "initialize") => Initialized(p)

\* C9: once a child has exited, no step spawns a child, and a request that
\* arrives is refused with an error.
C9_NoImplicitRestart ==
    [][(\E p \in Procs : procState[p] = "closed") =>
          /\ \A q \in Procs : procState[q] = "none" => procState'[q] = "none"
          /\ Len(reqs') > Len(reqs) =>
                (reqs'[Len(reqs')].pc = "done" /\ reqs'[Len(reqs')].status = 500)]_vars

(* ------------------------------------------------------ gateway: claims *)
\* C4: a request for which the health gate read a record with status
\* 'unhealthy' is answered 503 and no downstream call is issued for it.
C4_UnhealthyFailsFast ==
    gw.seen = "unhealthy" =>
        (gw.pc = "done" /\ gw.status = 503 /\ gw.forwardedTo = NoTarget)

\* C4 witness: the gate read 'unhealthy' for a registered target and the
\* request was answered 503.
C4_Witness ==
    /\ gw.target \in ServerIds /\ gw.seen = "unhealthy"
    /\ gw.pc = "done" /\ gw.status = 503

\* C5: a request to a registered target is forwarded unless the target's
\* last-known status is 'unhealthy'; in particular a target without a health
\* record is forwarded, and the answer is then the downstream's.
C5_OnlyUnhealthyBlocks ==
    (gw.pc # "idle" /\ gw.target \in ServerIds /\ gw.seen # "unhealthy") =>
        /\ gw.forwardedTo = gw.target
        /\ gw.error # "Target server unavailable"

\* C6: a request whose target is no key of the registry is answered 400 with
\* the registered identifiers and is never forwarded, whatever the health
\* records are.
C6_UnknownTarget400 ==
    (gw.pc # "idle" /\ gw.target \notin ServerIds) =>
        /\ gw.pc = "done"
        /\ gw.status = 400
        /\ gw.available = RegistryKeys
        /\ gw.forwardedTo = NoTarget

\* the discovery call of a server gave no tool list
DiscoveryFailed(outcome) ==
    outcome.kind = "reject" \/ outcome.shape \in {"null", "badtools"}

\* C10: an aggregation never answers 500; when it answers, the status is 200
\* and downstream_servers has exactly the registered identifiers as keys, a
\* server whose discovery failed marked 'unavailable' with an error, every
\* other server marked 'available' with the tools it returned.
C10_AggregationTolerant ==
    /\ agg.status # 500
    /\ agg.pc = "done" =>
          /\ agg.status = 200
          /\ DOMAIN agg.body.downstream_servers = ServerIds
          /\ \A s \in ServerIds :
                LET entry == agg.body.downstream_servers[s]
                    outcome == agg.replies[s]
                IN  IF DiscoveryFailed(outcome)
                    THEN entry.status = "unavailable" /\ entry.error # "none"
                    ELSE /\ entry.status = "available"
                         /\ entry.tools.items = outcome.tools
                         /\ entry.error = "none"

\* C10 witness: an aggregation in which one server failed and another did not
\* has answered.
C10_Witness ==
    /\ agg.pc = "done" /\ agg.status = 200
    /\ \E s \in ServerIds, t \in ServerIds :
          /\ agg.replies[s].kind = "reject"
          /\ ~DiscoveryFailed(agg.replies[t])
          /\ agg.body.downstream_servers[s].status = "unavailable"
          /\ agg.body.downstream_servers[t].status = "available"

\* C11: per server the health status goes from unknown (no record) to healthy
\* or unhealthy in the step in which a poll of that server completes, and in no
\* other step; a server that has a record keeps one, healthy or unhealthy, in
\* every later step, whatever polls, requests and failures follow.
C11_NeverBackToUnknown ==
    [][\A s \in ServerIds :
          LET polled == \E poll \in polls \ polls' : poll.server = s
          IN  /\ s \in DOMAIN health => s \in DOMAIN health'
              /\ polled => s \in DOMAIN health'
              /\ (s \notin DOMAIN health /\ s \in DOMAIN health') => polled
              /\ s \in DOMAIN health' => health'[s].status \in {"healthy", "unhealthy"}]_vars

\* C11 witness: a server was polled in two rounds, the second poll failed, a
\* request was answered meanwhile, and the server still has its record.
C11_Witness ==
    \E s \in ServerIds :
        /\ rounds >= 2
        /\ \A poll \in polls : poll.server # s
        /\ s \in DOMAIN health /\ health[s].status = "unhealthy"
        /\ gw.pc = "done"

\* C12: the read path reassembles lines: no call is still waiting once the
\* wrapper has read, in one data event or in several, the whole response line
\* its child wrote for it.
C12_LinesReassembled ==
    \A p \in Procs :
        LET mine == SelectSeq([k \in 1..Len(calls) |-> k], LAMBDA k : calls[k].proc = p)
        IN  \A i \in 1..Len(mine) :
                (procState[p] = "running" /\ i \in answered[p] /\ pipe[p] = <<>>)
                    => calls[mine[i]].state # "pending"

ClientNext ==
    \/ connectToServer
    \/ clientCall
    \/ \E idx \in 1..MaxReqs : ClientWrite(idx)
    \/ ClientWriteLog
    \/ \E n \in 1..MaxChunk : ClientData(n)

\* the stdio client alone
InitClient == ClientInit /\ BridgeInit /\ GatewayOff /\ LibIdle

ClientSpec == InitClient /\ [][ClientNext]_vars

\* C13: a stdout line that does not parse as JSON is ignored: in a step in
\* which the client reads nothing but unparsable lines no call is resolved or
\* rejected, so no call ever carries a parse error.
C13_NoiseIgnored ==
    \A k \in 1..Len(client.calls) : client.calls[k].error # "SyntaxError"

\* C14: every call settles, at the latest when its deadline expires, and a
\* settled call has no listener left: a call is pending only while its timer
\* is armed, and the registered stdout listeners never outnumber the pending
\* calls.
C14_SettlesAndReleases ==
    /\ \A k \in 1..Len(calls) : calls[k].state = "pending" => calls[k].timer
    /\ Cardinality({k \in 1..Len(calls) : calls[k].listener})
          <= Cardinality({k \in 1..Len(calls) : calls[k].state = "pending"})

\* C15: when the initialize response has not arrived by the deadline of the
\* initialize call, startServer rejects and the request that triggered the
\* start is answered with an error: no request is still waiting for startServer
\* after the timer of its initialize call has gone off.
C15_HandshakeTimesOut ==
    \A k \in 1..Len(calls) :
        (calls[k].role = "init" /\ ~calls[k].timer) =>
            /\ reqs[calls[k].owner].pc # "starting"
            /\ calls[k].state = "rejected" =>
                  (reqs[calls[k].owner].pc = "done" /\ reqs[calls[k].owner].status = 500)

\* C16: a poll round starts the polls of all servers in one step, without
\* waiting for any of them; and the step in which a server's poll completes
\* writes that server's record, whatever other polls are still in flight: they
\* stay in flight and the other servers' records are untouched.
C16_PollsIndependent ==
    /\ healthEnabled => \A s \in ServerIds : [server |-> s, round |-> rounds] \in polls
    /\ [][/\ rounds' # rounds =>
                \A s \in ServerIds : [server |-> s, round |-> rounds'] \in polls'
          /\ \A poll \in polls \ polls' :
                /\ polls' = polls \ {poll}
                /\ poll.server \in DOMAIN health'
                /\ \A t \in DOMAIN health \ {poll.server} : health'[t] = health[t]]_vars

\* C16 witness: a server has its record from the first round while the poll
\* of another server, started in the same round, is still hanging, and the
\* next round has not begun.
C16_Witness ==
    \E s \in ServerIds, t \in ServerIds :
        /\ s # t /\ rounds = 1
        /\ s \in DOMAIN health
        /\ [server |-> s, round |-> 1] \notin polls
        /\ t \notin DOMAIN health
        /\ [server |-> t, round |-> 1] \in polls

C19_DefaultTargetUsed ==
    (defaultServer # NoTarget /\ gw.pc # "idle" /\ gw.target = NoTarget)
        => gw.status # 400

\* C20: every entry of aggregated_tools carries the id of the server that
\* reported it and the name '<serverId>.<originalName>' of a tool that server
\* reported, and entries of different servers never have the same name.
C20_PrefixedNames ==
    LET tools == agg.all.aggregated_tools
    IN  /\ \A i \in 1..Len(tools) :
              /\ tools[i].server \in DOMAIN agg.replies
              /\ \E j \in 1..Len(agg.replies[tools[i].server].tools) :
                    tools[i].name =
                      <<tools[i].server>> \o agg.replies[tools[i].server].tools[j]
        /\ \A i \in 1..Len(tools), j \in 1..Len(tools) :
              tools[i].server # tools[j].server => tools[i].name # tools[j].name
        /\ agg.pc = "done" /\ agg.status = 200 => agg.body.aggregated_tools = tools

\* C20 witness: an aggregation answered with the tools of two servers, one of
\* which reported 'search' and the other a tool named like the first one's
\* entry.
C20_Witness ==
    /\ agg.pc = "done" /\ agg.status = 200
    /\ \E i \in 1..Len(agg.body.aggregated_tools),
          j \in 1..Len(agg.body.aggregated_tools) :
          LET a == agg.body.aggregated_tools[i]
              b == agg.body.aggregated_tools[j]
          IN  /\ a.server = "gdrive" /\ a.name = <<"gdrive", "search">>
              /\ b.server = "github" /\ b.name = <<"github", "gdrive", "search">>

\* C21: an aggregation issues the discovery calls to all registered servers in
\* its first step; the step in which one call settles records that server and
\* leaves the other calls in flight and the other servers' entries untouched;
\* and the aggregation answers in the very step in which its last call settles.
C21_FanOut ==
    [][/\ (agg.pc # "running" /\ agg'.pc = "running") => agg'.pending = ServerIds
       /\ \A s \in agg.pending \ agg'.pending :
             /\ agg'.pending = agg.pending \ {s}
             /\ s \in DOMAIN agg'.all.downstream_servers
             /\ \A t \in DOMAIN agg.all.downstream_servers \ {s} :
                   agg'.all.downstream_servers[t] = agg.all.downstream_servers[t]
       /\ (agg.pc = "running" /\ agg'.pc = "done") =>
             (agg'.pending = {} /\ DOMAIN agg'.body.downstream_servers = ServerIds)
       /\ (agg.pc = "running" /\ agg'.pending = {}) => agg'.pc = "done"]_vars

\* C21 witness: the last registered server has been recorded while the call to
\* the first one is still hanging.
C21_Witness ==
    /\ agg.pc = "running"
    /\ RegistryKeys[1] \in agg.pending
    /\ RegistryKeys[Len(RegistryKeys)] \in DOMAIN agg.all.downstream_servers
    /\ agg.all.downstream_servers[RegistryKeys[Len(RegistryKeys)]].status = "available"

\* C22: when the downstream server answers a forwarded request, whatever the
\* status, the gateway returns that status and that body to the caller.
C22_PassThrough ==
    gw.reply.kind = "response" =>
        (gw.pc = "done" /\ gw.status = gw.reply.status /\ gw.body = gw.reply.body)

\* C23: a forwarded call that fails with connection refused or a DNS failure
\* is answered 503 with the error 'Downstream server unavailable'.
C23_ConnectionFailure503 ==
    (gw.reply.kind = "error" /\ gw.reply.code \in {"ECONNREFUSED", "ENOTFOUND"}) =>
        /\ gw.pc = "done" /\ gw.forwardedTo \in ServerIds
        /\ gw.status = 503 /\ gw.error = "Downstream server unavailable"
        /\ gw.body = NoBody

C23_Witness ==
    /\ gw.reply.kind = "error" /\ gw.reply.code = "ENOTFOUND"
    /\ gw.seen = "healthy" /\ gw.status = 503

\* the response of the error class InternalError (an unexpected exception)
InternalErrorResponse == gw.status = 500 /\ gw.error = "Internal proxy error"

\* the responses of the error class ServerUnavailable (gated, or connection failure)
ServerUnavailableResponse ==
    gw.status = 503 /\ gw.error \in {"Target server unavailable", "Downstream server unavailable"}

\* C24 as stated: the response to a forwarded call that ran into its deadline
\* is neither the ServerUnavailable response nor the response of another error
\* class.
C24_TimeoutDistinct ==
    (gw.reply.kind = "error" /\ gw.reply.code = "ECONNABORTED") =>
        (~ServerUnavailableResponse /\ ~InternalErrorResponse)

\* C24, amended: the response to a forwarded call that ran into its deadline is
\* the 500 'Internal proxy error' response, whose message is the error's, and
\* never the ServerUnavailable response.
C24_TimeoutIsInternalError ==
    (gw.reply.kind = "error" /\ gw.reply.code = "ECONNABORTED") =>
        /\ gw.pc = "done" /\ InternalErrorResponse /\ ~ServerUnavailableResponse
        /\ gw.message = gw.reply.code /\ gw.body = NoBody

C24_Witness ==
    /\ gw.reply.kind = "error" /\ gw.reply.code = "ECONNABORTED"
    /\ gw.forwardedTo = "github" /\ gw.status = 500

\* C27: a health record carries an error exactly when its status is
\* 'unhealthy', and the poll that finds an unhealthy server healthy leaves the
\* record with status 'healthy' and no error.
C27_ErrorIffUnhealthy ==
    /\ [](\A s \in DOMAIN health :
             (health[s].error # "none") <=> (health[s].status = "unhealthy"))
    /\ [][\A poll \in polls \ polls' :
            (/\ poll.server \in DOMAIN health
             /\ health[poll.server].status = "unhealthy"
             /\ health'[poll.server].status = "healthy")
                => health'[poll.server] = [status |-> "healthy", error |-> "none"]]_vars

\* C27 witness: after the second round a server is healthy without an error
\* while another is unhealthy with one.
C27_Witness ==
    \E s \in ServerIds, t \in ServerIds :
        /\ rounds = 2 /\ polls = {}
        /\ s \in DOMAIN health /\ health[s] = [status |-> "healthy", error |-> "none"]
        /\ t \in DOMAIN health /\ health[t].status = "unhealthy" /\ health[t].error # "none"

\* C28: every response the gateway makes itself for a failure (400, 503 of the
\* gate, 503 of a connection failure, 500, 500 of the aggregation, 404) has an
\* error field, and the 400 and the 404 carry the list of the registered
\* target identifiers.
C28_FailuresHaveError ==
    /\ (gw.pc = "done" /\ gw.reply.kind # "response") =>
          /\ gw.status \in {400, 404, 500, 503}
          /\ gw.error # "none"
          /\ gw.status \in {400, 404} =>
                (gw.available = RegistryKeys /\ gw.available # NoList)
    /\ (agg.pc = "done" /\ agg.status # 200) => agg.error # "none"

\* C28 witness: the 404 of an unmatched route, with the list
C28_Witness ==
    /\ gw.pc = "done" /\ gw.route = "unmatched" /\ gw.status = 404
    /\ gw.error = "Endpoint not found" /\ gw.available = RegistryKeys

\* C25: the forwarded request of an inbound POST, PUT, PATCH or DELETE has the
\* inbound request's method, query parameters and body.
C25_MutatingPreserved ==
    (fwd.pc = "sent" /\ fwd.req.method \in {"POST", "PUT", "PATCH", "DELETE"}) =>
        /\ fwd.sent.method = fwd.req.method
        /\ fwd.sent.query = fwd.req.query
        /\ fwd.sent.body = fwd.req.body

\* C26: the forwarded headers are the inbound headers without host, connection
\* and content-length, each with the value it came with.
C26_HeadersStripped ==
    fwd.pc = "sent" =>
        /\ DOMAIN fwd.sent.headers =
              DOMAIN fwd.req.headers \ {"host", "connection", "content-length"}
        /\ \A h \in DOMAIN fwd.sent.headers : fwd.sent.headers[h] = fwd.req.headers[h]

\* C26 witness: a request with all six headers was forwarded with three
C26_Witness ==
    /\ fwd.pc = "sent"
    /\ DOMAIN fwd.req.headers = HeaderNames
    /\ DOMAIN fwd.sent.headers = {"authorization", "content-type", "x-custom-header"}
    /\ fwd.sent.headers["authorization"] = fwd.req.headers["authorization"]

\* the POSTs of the current makeRequest call that failed
FailedPosts == {i \in 1..Len(mcp.posts) : mcp.posts[i] # "ok"}

\* C29: makeRequest sends at most `retries` POSTs and none after a successful
\* one, has waited 1000*2^(k-1) ms after the k-th failed POST except the last
\* of `retries`, throws 'failed after <retries> attempts' exactly when
\* `retries` POSTs failed, and every call settles.
C29_RetriesTerminate ==
    /\ [](/\ Len(mcp.posts) <= mcp.retries
          /\ \A i \in 1..Len(mcp.posts) - 1 : mcp.posts[i] # "ok"
          /\ mcp.pc = "returned" =>
                (mcp.posts # << >> /\ mcp.posts[Len(mcp.posts)] = "ok")
          /\ mcp.pc = "thrown" <=> Cardinality(FailedPosts) = mcp.retries
          /\ mcp.pc = "thrown" => mcp.failedAfter = mcp.retries
          /\ mcp.pc = "posting" => Len(mcp.sleeps) = Len(mcp.posts)
          /\ mcp.pc # "posting" =>
                Len(mcp.sleeps) = Cardinality(FailedPosts \ {mcp.retries})
          /\ \A k \in 1..Len(mcp.sleeps) : mcp.sleeps[k] = 1000 * 2^(k - 1))
    /\ (mcp.pc \in {"posting", "sleeping"}) ~> (mcp.pc \in {"returned", "thrown"})

\* C29 witness: a call of a client with three retries threw after two sleeps
C29_Witness ==
    /\ mcp.pc = "thrown" /\ mcp.retries = 3
    /\ Len(mcp.posts) = 3 /\ mcp.sleeps = <<1000, 2000>>

\* C30: every processQuery call resolves; with only the MCP call failed the
\* result has success = true and mcpResult = null, with the RAG retrieval
\* failed it has success = false and an error; a call that had to initialize
\* the agent is no exception.
C30_NeverRejects ==
    \A i \in 1..Len(agent.results) :
        LET r == agent.results[i]
        IN  /\ r.settled = "resolved"
            /\ (r.mcpFailed /\ ~r.ragFailed) => (r.success /\ r.mcpResult = "null")
            /\ r.ragFailed => (~r.success /\ r.error # "none")

\* C31: only a settling poll writes the health map, and it writes the record
\* of its own server and always leaves one there: a step that settles no poll
\* (routing, the gate, a downstream call that is answered or fails, an
\* aggregation step) leaves the map as it is.
C31_OnlyMonitorWrites ==
    [][LET settled == polls \ polls'
       IN  /\ settled = {} => health' = health
           /\ \A poll \in settled :
                 /\ gw' = gw /\ agg' = agg
                 /\ poll.server \in DOMAIN health'
                 /\ health'[poll.server].status \in {"healthy", "unhealthy"}
                 /\ DOMAIN health' = DOMAIN health \cup {poll.server}
                 /\ \A t \in DOMAIN health \ {poll.server} : health'[t] = health[t]
           /\ (gw' # gw \/ agg' # agg) => (health' = health /\ polls' = polls)]_vars

\* C31 witness: a request was forwarded and its downstream call failed, an
\* aggregation ran into an unavailable server, one server was polled, and the
\* map holds the record of that server only.
C31_Witness ==
    /\ gw.pc = "done" /\ gw.reply.kind = "error" /\ gw.forwardedTo = "github"
    /\ agg.pc = "done" /\ agg.body.downstream_servers["github"].status = "unavailable"
    /\ DOMAIN health = {"github"} /\ health["github"].status = "healthy"

\* C32: for every server marked 'available', aggregated_tools has exactly one
\* entry per tool the server reported, whether its /tools body was an object
\* with a tools member, a bare list or the JSON-RPC envelope.
C32_OneEntryPerTool ==
    \A s \in DOMAIN agg.all.downstream_servers :
        (/\ agg.all.downstream_servers[s].status = "available"
         /\ agg.replies[s].shape \in {"object", "list", "envelope"}) =>
            \A j \in 1..Len(agg.replies[s].tools) :
                Cardinality({i \in 1..Len(agg.all.aggregated_tools) :
                                /\ agg.all.aggregated_tools[i].server = s
                                /\ agg.all.aggregated_tools[i].original =
                                      agg.replies[s].tools[j]}) = 1

FailedPoll(s) ==
    /\ \E poll \in polls \ polls' : poll.server = s
    /\ health'[s].status = "unhealthy"

\* a step in which a request for server s is taken up and not forwarded to s
NotForwarded(s) ==
    /\ gw.pc \in {"idle", "done"} /\ gw' # gw /\ gw'.target = s
    /\ ~(gw'.pc = "forwarding" /\ gw'.forwardedTo = s)

\* C34: with health checking enabled, if from some point on no poll of a
\* server fails, then from some point on the server is recorded healthy and
\* every request for it passes the gate and is forwarded to it.
C34_EventuallyHealthy ==
    \A s \in ServerIds :
        (healthEnabled /\ <>[][~FailedPoll(s)]_vars) =>
            (<>[]isServerHealthy(s) /\ <>[][~NotForwarded(s)]_vars)

\* C34 witness: a server is recorded healthy, a request for it is on its way
\* downstream, and the monitor is polling another server that it found
\* unhealthy before.
C34_Witness ==
    /\ healthEnabled
    /\ polls = {[server |-> "gdrive", round |-> 1]}
    /\ "gdrive" \in DOMAIN health /\ health["gdrive"].status = "unhealthy"
    /\ isServerHealthy("github")
    /\ gw.pc = "forwarding" /\ gw.forwardedTo = "github" /\ gw.seen = "healthy"

\* C35: the request counter is the number of inbound HTTP requests so far,
\* with request logging enabled or not, and GET /health reports it.
C35_CountsEveryRequest ==
    /\ metrics.requestCounter = Len(metrics.inbound)
    /\ \A n \in 1..Len(metrics.inbound) :
          (metrics.inbound[n] = "health" /\ \A k \in (n + 1)..Len(metrics.inbound) :
                                                metrics.inbound[k] # "health")
             => metrics.reported = n

\* C36: the timer of a call that is already settled, or that fires when the
\* child has exited and serverProcess is null, has no effect: no exception
\* escapes it and nothing but the timer itself changes.
C36_LateTimerHarmless ==
    [][\A k \in 1..Len(calls) :
         (/\ calls[k].timer /\ ~calls'[k].timer
          /\ (calls[k].state # "pending" \/ serverProcess = 0)) =>
              /\ crashed' = crashed
              /\ calls' = [calls EXCEPT ![k].timer = FALSE]
              /\ reqs' = reqs /\ serverProcess' = serverProcess]_vars

\* C37: when rounds overlap, the result of a poll of a server that settles
\* after a poll of the same server from a later round has settled does not
\* overwrite the record the later poll wrote.
C37_NewestPollWins ==
    [][\A poll \in polls \ polls' :
          (\E later \in (poll.round + 1)..rounds :
               [server |-> poll.server, round |-> later] \notin polls)
             => health'[poll.server] = health[poll.server]]_vars

\* C38: a child that has not closed is the one serverProcess refers to: at
\* most one child is alive, serverProcess is null or the child spawned last,
\* and the close event of a child only ever clears its own handle.
C38_OneChild ==
    /\ [](\A p \in Procs : procState[p] \in {"running", "errored"} => serverProcess = p)
    /\ [](serverProcess # 0 =>
            /\ procState[serverProcess] # "none"
            /\ \A q \in Procs : q > serverProcess => procState[q] = "none")
    /\ [][\A p \in Procs :
            (procState[p] # "closed" /\ procState'[p] = "closed") =>
                (serverProcess = p /\ serverProcess' = 0)]_vars

\* C38 witness: two requests are in flight on a fresh wrapper, the first
\* started the child and the second found it, and there is one child.
C38_Witness ==
    /\ Len(reqs) = 2 /\ reqs[1].pc = "starting" /\ reqs[2].pc = "calling"
    /\ serverProcess = 1 /\ procState = [p \in Procs |-> IF p = 1 THEN "running" ELSE "none"]

\* C39: the server parseQuery names for a query is a registered target: the
\* request made of a parsed query is never answered 400 by the gateway.
C39_ParsedTargetsRegistered ==
    gw.route = "prefix" => (gw.target \in ServerIds /\ gw.status # 400)

====
